---- MODULE Spec2Model ----
(***************************************************************************)
(* Model of Idlebrain_Downloader: URL-pattern extraction, candidate        *)
(* generation, adaptive discovery (v1.2) and the download pool of the      *)
(* v1.4 pipeline.                                                          *)
(*                                                                         *)
(* A URL is a sequence of atoms.  An atom is one character, except that    *)
(* the literals "index.html", "images" and ".jpg" are single atoms.        *)
(***************************************************************************)
EXTENDS Integers, Sequences, FiniteSets, TLC

VARIABLES
    version,          \* which program runs: "v1.1", "v1.2", "v1.3" or "v1.4"
    original_url,     \* main: the URL typed by the user
    max_input,        \* main: the text typed for the maximum number of images
    max_attempts,     \* main: the parsed maximum number of images
    remote,           \* environment: what the server answers for image index i
    tail,             \* environment: TRUE if every image beyond MaxIndex exists
    cpu_count,        \* environment: os.cpu_count() of the machine
    pc,               \* main: position of the pipeline driver
    error,            \* main: the exception caught by main ("none" if none)
    base_url,         \* main: first component returned by extract
    name,             \* main: second component returned by extract
    all_urls,         \* main: the generated candidate URLs
    status,           \* download pool: state of the future of URL number u
    outcome,          \* download pool: what the future of URL number u holds
    file,             \* destination folder: chunks in the file of URL number u, -1 if absent
    consumed,         \* download_images: futures already taken from as_completed
    success_count,    \* download_images: local counter
    fail_count,       \* download_images: local counter
    report,           \* main: the counters printed at the end
    fetched,          \* history: URL numbers for which a GET was issued
    reqFailed,        \* history: URL numbers whose GET raised a RequestException
    ioFailed,         \* history: URL numbers whose file write raised an OSError
    failures,         \* discover_image_urls: consecutive failed probes
    index,            \* discover_image_urls: next image number to probe
    discovered_urls,  \* discover_image_urls: the URLs found so far
    valid_urls,       \* validate_image_urls / main v1.1: the URLs that passed
    probed,           \* history: the result of each probe, in order
    probe_log,        \* history: the URL of each probe, in order
    get_count         \* history: number of GETs issued for URL number u

inputVars == <<version, original_url, max_input, remote, tail, cpu_count>>
mainVars == <<max_attempts, pc, error, base_url, name, all_urls, report>>
poolVars == <<status, outcome, file, consumed, success_count, fail_count>>
histVars == <<fetched, reqFailed, ioFailed>>
discVars == <<failures, index, discovered_urls, valid_urls, probed, probe_log>>
vars == <<inputVars, mainVars, poolVars, histVars, discVars, get_count>>

----------------------------------------------------------------------------
(* Bounds *)

MaxLen == 5          \* longest input URL, in atoms
MaxCount == 3        \* largest max_attempts typed by the user
BodyChunks == 2      \* chunks iter_content yields for one image body
MaxIndex == 4        \* largest image number the server answers individually

MaxText == 2         \* longest text typed for the maximum number, in characters


----------------------------------------------------------------------------
(* Characters *)

INDEX == "index.html"

Alphabet == {"/", "a", "b", "1", "_", "?", INDEX}

\* str.isalpha on one character
isalnum(c) == c \in {"a", "b", "1"}
isalpha(c) == c \in {"a", "b"}

\* the regex class [\w\d]: letters, digits and the underscore
IsWordChar(c) == c \in {"a", "b", "1", "_"}

Urls(n) == UNION {[1..k -> Alphabet] : k \in 0..n}

Min(S) == CHOOSE x \in S : \A y \in S : x <= y
Max(S) == CHOOSE x \in S : \A y \in S : x >= y

----------------------------------------------------------------------------
(* extract_base_url_and_name *)

\* the pattern /([\w\d]+)/index\.html matched with its first "/" at i and
\* its second "/" at j
TokenAllowEmpty(url, i, j) == \A k \in (i+1)..(j-1) : IsWordChar(url[k])
TokenPlus(url, i, j) == j > i + 1 /\ \A k \in (i+1)..(j-1) : IsWordChar(url[k])

MatchAt(url, i, j) ==
    /\ i \in 1..Len(url) /\ j \in (i+1)..(Len(url) - 1)
    /\ url[i] = "/"
    /\ TokenPlus(url, i, j)
    /\ url[j] = "/"
    /\ url[j+1] = INDEX

\* re.search: the leftmost match, or None
re_search(url) ==
    LET starts == {i \in 1..Len(url) : \E j \in 1..Len(url) : MatchAt(url, i, j)}
    IN  IF starts = {} THEN [found |-> FALSE, group1 |-> <<>>]
        ELSE LET i == Min(starts)
                 j == CHOOSE jj \in 1..Len(url) : MatchAt(url, i, jj)
             IN  [found |-> TRUE, group1 |-> SubSeq(url, i+1, j-1)]

\* url.rsplit('/', 1)[0]: the text before the last "/", the whole text if
\* there is no "/"
rsplit0(url) ==
    LET slashes == {i \in 1..Len(url) : url[i] = "/"}
    IN  IF slashes = {} THEN url ELSE SubSeq(url, 1, Max(slashes) - 1)

\* ''.join(filter(str.isalpha, token))
filter_isalnum(token) == SelectSeq(token, isalnum)
filter_isalpha(token) == SelectSeq(token, isalpha)

extract_unchecked(url) ==
    [raised |-> FALSE,
     base_url |-> rsplit0(url),
     name |-> filter_isalpha(re_search(url).group1)]
extract_base_url_and_name(url) ==
    LET match == re_search(url)
    IN  IF ~match.found
        THEN [raised |-> TRUE, base_url |-> <<>>, name |-> <<>>]
        ELSE [raised |-> FALSE,
              base_url |-> rsplit0(url),
              name |-> filter_isalpha(match.group1)]

----------------------------------------------------------------------------
(* generate_image_urls *)

DigitChar(d) == <<"0", "1", "2", "3", "4", "5", "6", "7", "8", "9">>[d + 1]

\* str(i) for i >= 0
RECURSIVE Decimal(_)
Decimal(i) == IF i < 10 THEN <<DigitChar(i)>>
              ELSE Decimal(i \div 10) \o <<DigitChar(i % 10)>>

\* the text a user types for the integer i
Decimal_signed(i) == IF i < 0 THEN <<"-">> \o Decimal(-i) ELSE Decimal(i)

\* f"{base_url}/images/{name}{i}.jpg"
CandidateUrl_no_index(b, n, i) == b \o <<"/", "images", "/">> \o n \o <<".jpg">>
CandidateUrl(b, n, i) == b \o <<"/", "images", "/">> \o n \o Decimal(i) \o <<".jpg">>

\* [... for i in range(1, max_attempts + 1)]
generate_from_zero(b, n, m) == [k \in 1..m |-> CandidateUrl(b, n, k - 1)]
generate_image_urls(b, n, m) == [i \in 1..m |-> CandidateUrl(b, n, i)]

----------------------------------------------------------------------------
(* download_image, v1.4: one worker of the pool *)

max_workers == 10

\* ThreadPoolExecutor() without max_workers, v1.2 line 84: the library takes
\* min(32, os.cpu_count() + 4)
DEFAULT_WIDTH_CAP == 32
DEFAULT_WIDTH_EXTRA == 4
default_max_workers ==
    IF cpu_count + DEFAULT_WIDTH_EXTRA < DEFAULT_WIDTH_CAP
    THEN cpu_count + DEFAULT_WIDTH_EXTRA ELSE DEFAULT_WIDTH_CAP

\* the number of threads of the pool
pool_width == IF version = "v1.2" THEN default_max_workers ELSE max_workers

\* one image more than the pool of v1.4 has threads
PoolLoad == max_workers + 1

\* the while loop of discover_image_urls is followed up to this image number
IndexCap == IF MaxIndex + 6 > PoolLoad + 4 THEN MaxIndex + 6 ELSE PoolLoad + 4

NoReport == [total |-> -1, downloaded |-> -1, failed |-> -1]

\* the list main passes to download_images: all_urls in v1.4 (line 140),
\* valid_urls in v1.3 (line 170)
PoolUrls == IF version = "v1.3" THEN valid_urls
            ELSE IF version = "v1.2" THEN discovered_urls
            ELSE all_urls

Submitted == 1..Len(PoolUrls)

\* the image number of submitted URL number u
ImageNo(u) ==
    IF version = "v1.2"
    THEN CHOOSE i \in 1..Len(probe_log) : probe_log[i] = PoolUrls[u]
    ELSE CHOOSE i \in 1..Len(all_urls) : all_urls[i] = PoolUrls[u]

\* the answer of the server for image number i; beyond the known images the
\* server has every image if tail, none otherwise
HeadResponse(i) == IF i \in DOMAIN remote THEN remote[i]
                   ELSE IF tail THEN "image200" ELSE "image404"

\* status code and Content-Type header of an answer
StatusCode(resp) ==
    CASE resp \in {"ok", "image200", "html200", "nohdr200", "image200get403"} -> 200
      [] resp = "image204" -> 204
      [] resp \in {"status404", "image404"} -> 404

ContentType(resp) ==
    CASE resp \in {"ok", "image200", "image204", "image404", "image200get403"}
             -> "image/jpeg"
      [] resp \in {"html200", "status404"} -> "text/html"
      [] resp = "nohdr200" -> ""

\* no answer at all: requests raises ConnectionError or Timeout
NoAnswer(resp) == resp \in {"unreachable", "timeout"}

\* session.get(...) returns and response.raise_for_status() does not raise
GetSucceeds(resp) ==
    ~NoAnswer(resp) /\ resp # "image200get403" /\ StatusCode(resp) < 400

\* os.path.basename(url): what follows the last "/"
basename(url) ==
    LET slashes == {k \in 1..Len(url) : url[k] = "/"}
        last == IF slashes = {} THEN 0
                ELSE CHOOSE k \in slashes : \A m \in slashes : m <= k
    IN  SubSeq(url, last + 1, Len(url))

\* the download folder chosen at the prompt of main
folder == <<"folder">>

\* os.path.join(folder, filename) for a filename that has no "/"
path_join(dir, filename) == dir \o <<"/">> \o filename

\* file_path in download_image for submitted URL number u
file_path(u) == path_join(folder, basename(PoolUrls[u]))

InFlight == {u \in Submitted : status[u] \in {"running", "got", "streaming"}}

\* the executor exists from the submit calls until its with-block has exited,
\* which is after every submitted call has run, also when the driver raised
PoolOpen == pc \in {"Downloading", "Raising"}

\* a pool thread takes the queued call download_image(session, url, folder);
\* the executor hands out its work items in the order of the submit calls
WorkerStart(u) ==
    /\ PoolOpen
    /\ status[u] = "queued"
    /\ \A v \in Submitted : v < u => status[v] # "queued"
    /\ Cardinality(InFlight) < pool_width
    /\ status' = [status EXCEPT ![u] = "running"]
    /\ UNCHANGED <<inputVars, mainVars, outcome, file, consumed, success_count,
                   fail_count, histVars>>
    /\ UNCHANGED discVars
    /\ UNCHANGED get_count

\* the except clause of download_image: only requests.RequestException
\* (v1.2: except Exception)
Catches(exc) == version = "v1.2" \/ exc = "RequestException"

\* what the future holds when download_image ends with exception exc
Raised(exc) == IF Catches(exc) THEN "False" ELSE exc

\* session.get(url, stream=True, timeout=15); response.raise_for_status()
WorkerGet(u) ==
    /\ PoolOpen
    /\ status[u] = "running"
    /\ fetched' = fetched \cup {u}
    /\ get_count' = [get_count EXCEPT ![u] = @ + 1]
    /\ IF GetSucceeds(HeadResponse(ImageNo(u)))
       THEN /\ status' = [status EXCEPT ![u] = "got"]
            /\ UNCHANGED <<outcome, reqFailed>>
       ELSE \* ConnectionError/Timeout from get, or HTTPError from raise_for_status
            /\ status' = [status EXCEPT ![u] = "done"]
            /\ outcome' = [outcome EXCEPT ![u] = Raised("RequestException")]
            /\ reqFailed' = reqFailed \cup {u}
    /\ UNCHANGED <<inputVars, mainVars, file, consumed, success_count, fail_count,
                   ioFailed>>
    /\ UNCHANGED discVars

\* open(file_path, 'wb'): creates or truncates the file, or raises OSError
WorkerOpen(u) ==
    /\ PoolOpen
    /\ status[u] = "got"
    /\ \/ /\ file' = [file EXCEPT ![u] = 0]
          /\ status' = [status EXCEPT ![u] = "streaming"]
          /\ UNCHANGED <<outcome, ioFailed>>
       \/ /\ status' = [status EXCEPT ![u] = "done"]
          /\ outcome' = [outcome EXCEPT ![u] = Raised("OSError")]
          /\ ioFailed' = ioFailed \cup {u}
          /\ UNCHANGED file
    /\ UNCHANGED <<inputVars, mainVars, consumed, success_count, fail_count,
                   fetched, reqFailed>>
    /\ UNCHANGED discVars
    /\ UNCHANGED get_count

\* one iteration of: for chunk in response.iter_content(1024): f.write(chunk)
WorkerChunk(u) ==
    /\ PoolOpen
    /\ status[u] = "streaming"
    /\ file[u] < BodyChunks
    /\ \/ /\ file' = [file EXCEPT ![u] = @ + 1]
          /\ UNCHANGED <<status, outcome, reqFailed, ioFailed>>
       \/ \* iter_content raises ChunkedEncodingError/ConnectionError
          /\ status' = [status EXCEPT ![u] = "done"]
          /\ outcome' = [outcome EXCEPT ![u] = Raised("RequestException")]
          /\ reqFailed' = reqFailed \cup {u}
          /\ UNCHANGED <<file, ioFailed>>
       \/ \* f.write raises OSError
          /\ status' = [status EXCEPT ![u] = "done"]
          /\ outcome' = [outcome EXCEPT ![u] = Raised("OSError")]
          /\ ioFailed' = ioFailed \cup {u}
          /\ UNCHANGED <<file, reqFailed>>
    /\ UNCHANGED <<inputVars, mainVars, consumed, success_count, fail_count, fetched>>
    /\ UNCHANGED discVars
    /\ UNCHANGED get_count

\* iter_content is exhausted: the file is closed and download_image returns True
WorkerReturn(u) ==
    /\ PoolOpen
    /\ status[u] = "streaming"
    /\ file[u] = BodyChunks
    /\ status' = [status EXCEPT ![u] = "done"]
    /\ outcome' = [outcome EXCEPT ![u] = "True"]
    /\ UNCHANGED <<inputVars, mainVars, file, consumed, success_count, fail_count,
                   histVars>>
    /\ UNCHANGED discVars
    /\ UNCHANGED get_count

----------------------------------------------------------------------------
(* download_images, v1.4 *)

\* os.makedirs, the counters set to 0, one future submitted per URL
DownloadImagesStart ==
    /\ pc = "Submitting"
    /\ status' = [u \in Submitted |-> "queued"]
    /\ outcome' = [u \in Submitted |-> "none"]
    /\ file' = [u \in Submitted |-> -1]
    /\ consumed' = {}
    /\ success_count' = 0
    /\ fail_count' = 0
    /\ get_count' = [u \in Submitted |-> 0]
    /\ pc' = "Downloading"
    /\ UNCHANGED <<inputVars, max_attempts, error, base_url, name, all_urls, report, histVars>>
    /\ UNCHANGED discVars

\* if future.result(): the test that picks the counter
result_always_truthy(r) == r \in {"True", "False"}
result_truthy(r) == r = "True"

\* success_count += 1, fail_count += 1
count_up_twice(c) == c + 2
count_up(c) == c + 1

\* one iteration of: for future in as_completed(futures)
Consume(u) ==
    /\ version # "v1.2"
    /\ pc = "Downloading"
    /\ status[u] = "done"
    /\ u \notin consumed
    /\ consumed' = consumed \cup {u}
    /\ IF result_truthy(outcome[u])
       THEN /\ success_count' = count_up(success_count)
            /\ UNCHANGED <<fail_count, pc, error>>
       ELSE IF outcome[u] = "False"
       THEN /\ fail_count' = count_up(fail_count)
            /\ UNCHANGED <<success_count, pc, error>>
       ELSE \* future.result() re-raises the exception of the worker
            /\ pc' = "Raising"
            /\ error' = outcome[u]
            /\ UNCHANGED <<success_count, fail_count>>
    /\ UNCHANGED <<inputVars, max_attempts, base_url, name, all_urls, report, status, outcome, file,
                   histVars>>
    /\ UNCHANGED discVars
    /\ UNCHANGED get_count

\* the executor's with-block exits once every worker has finished; then
\* return success_count, fail_count
DownloadImagesReturn ==
    /\ pc = "Downloading"
    /\ consumed = Submitted
    /\ pc' = "Reporting"
    /\ UNCHANGED <<inputVars, max_attempts, error, base_url, name, all_urls, report, poolVars,
                   histVars>>
    /\ UNCHANGED discVars
    /\ UNCHANGED get_count

\* the exception leaves download_images: the executor's with-block first waits
\* for every worker, then main's except clause prints the error
DownloadImagesRaise ==
    /\ pc = "Raising"
    /\ \A u \in Submitted : status[u] = "done"
    /\ pc' = "Failed"
    /\ UNCHANGED <<inputVars, max_attempts, error, base_url, name, all_urls, report, poolVars,
                   histVars>>
    /\ UNCHANGED discVars
    /\ UNCHANGED get_count

----------------------------------------------------------------------------
(* main, v1.4 *)

Extract ==
    /\ version \in {"v1.3", "v1.4"}
    /\ pc = "Init"
    /\ LET r == extract_base_url_and_name(original_url)
       IN  IF r.raised
           THEN /\ pc' = "Failed"
                /\ error' = "ValueError"
                /\ UNCHANGED <<base_url, name>>
           ELSE /\ pc' = "Generating"
                /\ base_url' = r.base_url
                /\ name' = r.name
                /\ UNCHANGED error
    /\ UNCHANGED <<inputVars, max_attempts, all_urls, report, poolVars, histVars>>
    /\ UNCHANGED discVars
    /\ UNCHANGED get_count

Generate ==
    /\ pc = "Generating"
    /\ all_urls' = generate_image_urls(base_url, name, max_attempts)
    /\ pc' = "Submitting"
    /\ UNCHANGED <<inputVars, max_attempts, error, base_url, name, report, poolVars, histVars>>
    /\ UNCHANGED discVars
    /\ UNCHANGED get_count

\* the console.print of Total / Downloaded / Failed
Report ==
    /\ pc = "Reporting"
    /\ report' = [total |-> Len(PoolUrls), downloaded |-> success_count,
                  failed |-> fail_count]
    /\ pc' = "Done"
    /\ UNCHANGED <<inputVars, max_attempts, error, base_url, name, all_urls, poolVars, histVars>>
    /\ UNCHANGED discVars
    /\ UNCHANGED get_count

InitState ==
    /\ pc = "Init"
    /\ error = "none"
    /\ base_url = <<>>
    /\ name = <<>>
    /\ all_urls = <<>>
    /\ report = NoReport
    /\ status = <<>>
    /\ outcome = <<>>
    /\ file = <<>>
    /\ consumed = {}
    /\ success_count = 0
    /\ fail_count = 0
    /\ fetched = {}
    /\ reqFailed = {}
    /\ ioFailed = {}
    /\ get_count = <<>>

InitDiscover ==
    /\ failures = 0
    /\ index = 1
    /\ discovered_urls = <<>>
    /\ valid_urls = <<>>
    /\ probed = <<>>
    /\ probe_log = <<>>

\* a server with no image beyond MaxIndex, a machine with 4 CPUs
InitEnvironment ==
    /\ tail = FALSE
    /\ cpu_count = 4

----------------------------------------------------------------------------
(* Specification of the pure stages: every input URL up to MaxLen atoms *)

InitExtract ==
    /\ version = "v1.4"
    /\ original_url \in Urls(MaxLen)
    /\ max_attempts \in (-1)..MaxCount
    /\ max_input = Decimal_signed(max_attempts)
    /\ remote = <<>>
    /\ InitEnvironment
    /\ InitState
    /\ InitDiscover

NextExtract == Extract \/ Generate

SpecExtract == InitExtract /\ [][NextExtract]_vars

----------------------------------------------------------------------------
(* is_image_url and discover_image_urls, v1.2 *)

threshold == 3

\* what requests.head(url, timeout=5) meets for an image number
HeadKinds == {"image200", "html200", "nohdr200", "image204", "image404", "timeout"}

\* 'image' in response.headers.get('Content-Type', '')
image_in(content_type) == content_type = "image/jpeg"

\* the except clause around requests.head: requests.RequestException
head_catches_nothing(exc) == FALSE
head_catches(exc) == exc = "RequestException"

\* the HEAD request raises an exception that the prober does not catch
ProbeRaises(resp) == NoAnswer(resp) /\ ~head_catches("RequestException")

\* is_image_url, v1.2: status_code == 200 and 'image' in Content-Type; a
\* RequestException gives False
is_image_url(resp) ==
    IF NoAnswer(resp) THEN FALSE
    ELSE StatusCode(resp) = 200 /\ image_in(ContentType(resp))

\* the test inside the loop of validate_image_urls, v1.3
head_is_image(resp) ==
    IF NoAnswer(resp) THEN FALSE
    ELSE StatusCode(resp) = 200 /\ image_in(ContentType(resp))

\* validate_url, v1.1: status_code == 200; a RequestException gives False
validate_url(resp) ==
    IF NoAnswer(resp) THEN FALSE
    ELSE StatusCode(resp) = 200

\* while failures < 3
loop_cond_le(f) == f <= threshold
loop_cond(f) == f < threshold

\* failures = 0 on a hit, failures += 1 on a miss
next_failures_stuck(f, hit) == IF hit THEN 0 ELSE f
next_failures(f, hit) == IF hit THEN 0 ELSE f + 1

\* index += 1
next_index_skip(i) == i + 2
next_index(i) == i + 1

\* one iteration of the while loop
DiscoverStep ==
    /\ pc = "Discovering"
    /\ loop_cond(failures)
    /\ index <= IndexCap
    /\ LET url == CandidateUrl(base_url, name, index)
           resp == HeadResponse(index)
           hit == is_image_url(resp)
       IN  /\ probe_log' = Append(probe_log, url)
           /\ IF ProbeRaises(resp)
              THEN /\ pc' = "Failed"
                   /\ error' = "RequestException"
                   /\ UNCHANGED <<discovered_urls, failures, probed, index>>
              ELSE /\ discovered_urls' = IF hit THEN Append(discovered_urls, url)
                                        ELSE discovered_urls
                   /\ failures' = next_failures(failures, hit)
                   /\ probed' = Append(probed, hit)
                   /\ index' = next_index(index)
                   /\ UNCHANGED <<pc, error>>
    /\ UNCHANGED <<inputVars, max_attempts, base_url, name, all_urls, report,
                   poolVars, histVars, valid_urls>>
    /\ UNCHANGED get_count

\* the loop condition is false: return discovered_urls
DiscoverReturn ==
    /\ pc = "Discovering"
    /\ ~loop_cond(failures)
    /\ pc' = "Discovered"
    /\ UNCHANGED <<inputVars, max_attempts, error, base_url, name, all_urls, report, poolVars,
                   histVars, discVars>>
    /\ UNCHANGED get_count

----------------------------------------------------------------------------
(* Specification of adaptive discovery, v1.2: discover_image_urls called with
   the (base_url, name) of a well-formed URL *)

InitAdaptive ==
    /\ version = "v1.2"
    /\ original_url = <<"/", "a", "1", "/", INDEX>>
    /\ max_attempts = 0
    /\ max_input = <<>>
    /\ remote \in [1..MaxIndex -> HeadKinds]
    /\ InitEnvironment
    /\ InitDiscover
    /\ pc = "Discovering"
    /\ error = "none"
    /\ base_url = extract_base_url_and_name(original_url).base_url
    /\ name = extract_base_url_and_name(original_url).name
    /\ all_urls = <<>>
    /\ report = NoReport
    /\ status = <<>>
    /\ outcome = <<>>
    /\ file = <<>>
    /\ consumed = {}
    /\ success_count = 0
    /\ fail_count = 0
    /\ fetched = {}
    /\ reqFailed = {}
    /\ ioFailed = {}
    /\ get_count = <<>>

NextAdaptive == DiscoverStep \/ DiscoverReturn

SpecAdaptive == InitAdaptive /\ [][NextAdaptive]_vars

\* the same call against a server that beyond MaxIndex has either no image
\* or every image
InitAdaptiveLive ==
    /\ version = "v1.2"
    /\ original_url = <<"/", "a", "1", "/", INDEX>>
    /\ max_attempts = 0
    /\ max_input = <<>>
    /\ remote \in [1..MaxIndex -> HeadKinds]
    /\ tail \in BOOLEAN
    /\ cpu_count = 4
    /\ InitDiscover
    /\ pc = "Discovering"
    /\ error = "none"
    /\ base_url = extract_base_url_and_name(original_url).base_url
    /\ name = extract_base_url_and_name(original_url).name
    /\ all_urls = <<>>
    /\ report = NoReport
    /\ status = <<>>
    /\ outcome = <<>>
    /\ file = <<>>
    /\ consumed = {}
    /\ success_count = 0
    /\ fail_count = 0
    /\ fetched = {}
    /\ reqFailed = {}
    /\ ioFailed = {}
    /\ get_count = <<>>

\* discover_image_urls runs in one thread and every requests.head call ends
\* (timeout=5), so the loop always takes its next step
SpecAdaptiveLive ==
    InitAdaptiveLive /\ [][NextAdaptive]_vars /\ WF_vars(NextAdaptive)

----------------------------------------------------------------------------
(* Specification of the v1.4 pipeline *)

\* https://site.example/gallery42/index.html written with the model's atoms,
\* a directory name that is not a word, a page that is not index.html, and a
\* URL with a query that holds a "/"
SampleUrls == { <<"/", "a", "1", "/", INDEX>>,
                <<"/", "a", "?", "/", INDEX>>,
                <<"/", "a">>,
                <<"/", "a", "/", INDEX, "?", "/", "b">> }

\* what the GET of image i meets: the image, a non-success status, no connection
GetKinds == {"ok", "status404", "unreachable"}

Init ==
    /\ version = "v1.4"
    /\ original_url \in SampleUrls
    /\ max_attempts \in (-1)..MaxCount
    /\ max_input = Decimal_signed(max_attempts)
    /\ remote \in [1..MaxCount -> GetKinds]
    /\ InitEnvironment
    /\ InitState
    /\ InitDiscover

Next ==
    \/ Extract
    \/ Generate
    \/ DownloadImagesStart
    \/ \E u \in Submitted : WorkerStart(u)
    \/ \E u \in Submitted : WorkerGet(u)
    \/ \E u \in Submitted : WorkerOpen(u)
    \/ \E u \in Submitted : WorkerChunk(u)
    \/ \E u \in Submitted : WorkerReturn(u)
    \/ \E u \in Submitted : Consume(u)
    \/ DownloadImagesReturn
    \/ DownloadImagesRaise
    \/ Report

Spec == Init /\ [][Next]_vars

----------------------------------------------------------------------------
(* fetch_all_links, validate_image_urls and main, v1.3; the validation pass of
   main, v1.1 *)

DEFAULT_MAX_ATTEMPTS == 100

\* fetch_all_links: the same list comprehension as generate_image_urls
fetch_all_links(b, n, m) == [i \in 1..m |-> CandidateUrl(b, n, i)]

\* all_urls = fetch_all_links(base_url, name), v1.3 line 163
FetchAllLinks ==
    /\ version = "v1.3"
    /\ pc = "Generating"
    /\ all_urls' = fetch_all_links(base_url, name, DEFAULT_MAX_ATTEMPTS)
    /\ pc' = "Validating"
    /\ UNCHANGED <<inputVars, max_attempts, error, base_url, name, report, poolVars,
                   histVars, discVars, get_count>>

\* urls = extract_name_and_generate_urls(input_url, end_num), v1.1 line 84: the
\* same pattern (its "/index.html" is a lookahead), rsplit, filter and range
ExtractAndGenerateV11 ==
    /\ version = "v1.1"
    /\ pc = "Init"
    /\ LET r == extract_base_url_and_name(original_url)
       IN  IF r.raised
           THEN /\ pc' = "Failed"
                /\ error' = "ValueError"
                /\ UNCHANGED <<base_url, name, all_urls>>
           ELSE /\ pc' = "Validating"
                /\ base_url' = r.base_url
                /\ name' = r.name
                /\ all_urls' = generate_image_urls(r.base_url, r.name, max_attempts)
                /\ UNCHANGED error
    /\ UNCHANGED <<inputVars, max_attempts, report, poolVars, histVars, discVars,
                   get_count>>

\* the prober of the validation pass
Prober(resp) == IF version = "v1.1" THEN validate_url(resp) ELSE head_is_image(resp)

\* the for loop has candidates left
more_candidates_short(pos, n) == pos < n
more_candidates(pos, n) == pos <= n

\* the for loop goes on to the next url whatever the probe said
next_url_retry(pos, hit) == IF hit THEN pos + 1 ELSE pos
next_url(pos, hit) == pos + 1

\* one iteration of: for url in urls (v1.3 lines 76-83, v1.1 lines 88-91)
ValidateStep ==
    /\ version \in {"v1.1", "v1.3"}
    /\ pc = "Validating"
    /\ more_candidates(index, Len(all_urls))
    /\ LET url == all_urls[index]
           resp == HeadResponse(index)
           hit == Prober(resp)
       IN  /\ probe_log' = Append(probe_log, url)
           /\ IF ProbeRaises(resp)
              THEN /\ pc' = "Failed"
                   /\ error' = "RequestException"
                   /\ UNCHANGED <<valid_urls, probed, index>>
              ELSE /\ valid_urls' = IF hit THEN Append(valid_urls, url) ELSE valid_urls
                   /\ probed' = Append(probed, hit)
                   /\ index' = next_url(index, hit)
                   /\ UNCHANGED <<pc, error>>
    /\ UNCHANGED <<inputVars, max_attempts, base_url, name, all_urls, report,
                   poolVars, histVars, failures, discovered_urls, get_count>>

\* where main goes with the validated list: v1.3 "if valid_urls:" (line 168),
\* v1.1 goes on to its download loop
after_validation_strict(v) ==
    IF version = "v1.1" THEN "Validated"
    ELSE IF v # <<>> THEN "Submitting" ELSE "Failed"
after_validation(v) ==
    IF version = "v1.1" THEN "Validated"
    ELSE IF v # <<>> THEN "Submitting" ELSE "Done"

\* the loop is exhausted: return valid_urls
ValidateReturn ==
    /\ version \in {"v1.1", "v1.3"}
    /\ pc = "Validating"
    /\ ~more_candidates(index, Len(all_urls))
    /\ pc' = after_validation(valid_urls)
    /\ UNCHANGED <<inputVars, max_attempts, error, base_url, name, all_urls, report,
                   poolVars, histVars, discVars, get_count>>

\* v1.3: no bound is asked for, fetch_all_links runs with its default; the
\* first MaxCount image numbers answer with one of kinds
InitV13With(kinds) ==
    /\ version = "v1.3"
    /\ original_url \in SampleUrls
    /\ max_input = <<>>
    /\ max_attempts = DEFAULT_MAX_ATTEMPTS
    /\ remote \in [1..MaxCount -> kinds]
    /\ InitEnvironment
    /\ InitState
    /\ InitDiscover

\* the answers followed through the whole pipeline: an image, a page that is
\* not an image, no answer
PipelineKinds == {"image200", "html200", "timeout"}

InitV13 == InitV13With(PipelineKinds)

NextV13 ==
    \/ Extract
    \/ FetchAllLinks
    \/ ValidateStep
    \/ ValidateReturn
    \/ DownloadImagesStart
    \/ \E u \in Submitted : WorkerStart(u)
    \/ \E u \in Submitted : WorkerGet(u)
    \/ \E u \in Submitted : WorkerOpen(u)
    \/ \E u \in Submitted : WorkerChunk(u)
    \/ \E u \in Submitted : WorkerReturn(u)
    \/ \E u \in Submitted : Consume(u)
    \/ DownloadImagesReturn
    \/ DownloadImagesRaise
    \/ Report

SpecV13 == InitV13 /\ [][NextV13]_vars

\* the validation pass of v1.1: the ending number typed by the user
InitV11 ==
    /\ version = "v1.1"
    /\ original_url \in SampleUrls
    /\ max_attempts \in 0..MaxCount
    /\ max_input = Decimal_signed(max_attempts)
    /\ remote \in [1..MaxCount -> HeadKinds]
    /\ InitEnvironment
    /\ InitState
    /\ InitDiscover

----------------------------------------------------------------------------
(* Specification of the three probers: discovery of v1.2 and the validation
   passes of v1.1 and v1.3 *)

InitProbers == InitAdaptive \/ InitV11 \/ InitV13With(HeadKinds)

NextProbers ==
    \/ DiscoverStep
    \/ DiscoverReturn
    \/ ExtractAndGenerateV11
    \/ Extract
    \/ FetchAllLinks
    \/ ValidateStep
    \/ ValidateReturn

SpecProbers == InitProbers /\ [][NextProbers]_vars

----------------------------------------------------------------------------
(* main, v1.4: reading the maximum number of images (lines 125-130) *)

FALLBACK_MAX_ATTEMPTS == 100

BoundChars == {"-", "0", "1", "3", "x"}

Texts(n) == UNION {[1..k -> BoundChars] : k \in 0..n}

IsDigit(c) == c \in {"0", "1", "2", "3", "4", "5", "6", "7", "8", "9"}

AllDigits(t) == t # <<>> /\ \A k \in 1..Len(t) : IsDigit(t[k])

\* int(text) does not raise ValueError: an optional sign, then digits
int_accepts(t) ==
    \/ AllDigits(t)
    \/ t # <<>> /\ t[1] \in {"-", "+"} /\ AllDigits(Tail(t))

RECURSIVE digits_value(_)
digits_value(t) ==
    IF t = <<>> THEN 0
    ELSE 10 * digits_value(SubSeq(t, 1, Len(t) - 1))
         + (CHOOSE d \in 0..9 : DigitChar(d) = t[Len(t)])

\* int(text) for an accepted text
int_value(t) ==
    IF t[1] = "-" THEN 0 - digits_value(Tail(t))
    ELSE IF t[1] = "+" THEN digits_value(Tail(t))
    ELSE digits_value(t)

\* try: max_attempts = int(...)  except ValueError: max_attempts = 100
read_max_attempts_or_zero(t) == IF int_accepts(t) THEN int_value(t) ELSE 0
read_max_attempts(t) ==
    IF int_accepts(t) THEN int_value(t) ELSE FALLBACK_MAX_ATTEMPTS

ReadMaxAttempts ==
    /\ version = "v1.4"
    /\ pc = "Start"
    /\ max_attempts' = read_max_attempts(max_input)
    /\ pc' = "Init"
    /\ UNCHANGED <<inputVars, error, base_url, name, all_urls, report, poolVars,
                   histVars, discVars, get_count>>

\* v1.4 from its prompts on, up to the call of download_images
InitConfig ==
    /\ version = "v1.4"
    /\ original_url \in SampleUrls
    /\ max_input \in Texts(MaxText)
    /\ max_attempts = 0
    /\ remote = <<>>
    /\ InitEnvironment
    /\ pc = "Start"
    /\ error = "none"
    /\ base_url = <<>>
    /\ name = <<>>
    /\ all_urls = <<>>
    /\ report = NoReport
    /\ status = <<>>
    /\ outcome = <<>>
    /\ file = <<>>
    /\ consumed = {}
    /\ success_count = 0
    /\ fail_count = 0
    /\ fetched = {}
    /\ reqFailed = {}
    /\ ioFailed = {}
    /\ get_count = <<>>
    /\ InitDiscover

NextConfig == ReadMaxAttempts \/ Extract \/ Generate

SpecConfig == InitConfig /\ [][NextConfig]_vars

----------------------------------------------------------------------------
(* The download pool of v1.2 with more discovered images than 10 *)

\* main, v1.2 lines 126-132: if discovered_urls: download_images_concurrently
AfterDiscovery ==
    /\ version = "v1.2"
    /\ pc = "Discovered"
    /\ pc' = IF discovered_urls # <<>> THEN "Submitting" ELSE "Done"
    /\ UNCHANGED <<inputVars, max_attempts, error, base_url, name, all_urls, report,
                   poolVars, histVars, discVars, get_count>>

\* one iteration of: for future in as_completed(futures): pbar.update(1)
PbarUpdate(u) ==
    /\ version = "v1.2"
    /\ pc = "Downloading"
    /\ status[u] = "done"
    /\ u \notin consumed
    /\ consumed' = consumed \cup {u}
    /\ UNCHANGED <<inputVars, mainVars, status, outcome, file, success_count,
                   fail_count, histVars, discVars, get_count>>

\* a server that shows PoolLoad images to HEAD and refuses every GET
InitWidthRemote ==
    /\ remote = [i \in 1..PoolLoad |-> "image200get403"]
    /\ tail = FALSE

InitWidth ==
    /\ InitWidthRemote
    /\ version = "v1.2"
    /\ cpu_count \in {2, 7}
    /\ original_url = <<"/", "a", "1", "/", INDEX>>
    /\ max_attempts = 0
    /\ max_input = <<>>
    /\ InitDiscover
    /\ pc = "Discovering"
    /\ error = "none"
    /\ base_url = extract_base_url_and_name(original_url).base_url
    /\ name = extract_base_url_and_name(original_url).name
    /\ all_urls = <<>>
    /\ report = NoReport
    /\ status = <<>>
    /\ outcome = <<>>
    /\ file = <<>>
    /\ consumed = {}
    /\ success_count = 0
    /\ fail_count = 0
    /\ fetched = {}
    /\ reqFailed = {}
    /\ ioFailed = {}
    /\ get_count = <<>>

NextWidth ==
    \/ DiscoverStep
    \/ DiscoverReturn
    \/ AfterDiscovery
    \/ DownloadImagesStart
    \/ \E u \in Submitted : WorkerStart(u)
    \/ \E u \in Submitted : WorkerGet(u)
    \/ \E u \in Submitted : PbarUpdate(u)
    \/ DownloadImagesReturn

SpecWidth == InitWidth /\ [][NextWidth]_vars

----------------------------------------------------------------------------
(* Vocabulary of the properties *)

\* url = prefix of p atoms, "/", a token of t >= 1 word characters, "/index.html", rest
SegmentAt(url, p, t) ==
    /\ t >= 1
    /\ p + t + 3 <= Len(url)
    /\ url[p + 1] = "/"
    /\ \A k \in 1..t : IsWordChar(url[p + 1 + k])
    /\ url[p + t + 2] = "/"
    /\ url[p + t + 3] = INDEX

ContainsSegment(url) == \E p \in 0..Len(url), t \in 1..Len(url) : SegmentAt(url, p, t)

SegmentStart(url) == Min({p \in 0..Len(url) : \E t \in 1..Len(url) : SegmentAt(url, p, t)})
SegmentLen(url) == CHOOSE t \in 1..Len(url) : SegmentAt(url, SegmentStart(url), t)

\* the token of the first segment, and the URL up to the end of that token
SegmentToken(url) ==
    SubSeq(url, SegmentStart(url) + 2, SegmentStart(url) + 1 + SegmentLen(url))
SegmentDirectory(url) == SubSeq(url, 1, SegmentStart(url) + 1 + SegmentLen(url))

RECURSIVE AlphaOnly(_)
AlphaOnly(t) == IF t = <<>> THEN <<>>
                ELSE IF Head(t) \in {"a", "b"} THEN <<Head(t)>> \o AlphaOnly(Tail(t))
                ELSE AlphaOnly(Tail(t))

Digits == {DigitChar(d) : d \in 0..9}
DigitValue(c) == CHOOSE d \in 0..9 : DigitChar(d) = c

RECURSIVE ParseDecimal(_)
ParseDecimal(s) == IF s = <<>> THEN 0
                   ELSE 10 * ParseDecimal(SubSeq(s, 1, Len(s) - 1)) + DigitValue(s[Len(s)])

\* the number written right before the final ".jpg" of a candidate
CandidateIndex(u) ==
    LET body == SubSeq(u, 1, Len(u) - 1)
        start == Min({k \in 1..(Len(body) + 1) : \A m \in k..Len(body) : body[m] \in Digits})
    IN  ParseDecimal(SubSeq(body, start, Len(body)))

\* main has called generate_image_urls
Generated == \/ pc \in {"Submitting", "Downloading", "Raising", "Reporting", "Done"}
             \/ pc = "Failed" /\ error # "ValueError"

Extracted == pc = "Generating" \/ Generated

\* the last probe that found an image, 0 if none did
LastHit == Max({0} \cup {k \in 1..Len(probed) : probed[k]})

Images == {i \in DOMAIN remote : remote[i] = "image200"}

----------------------------------------------------------------------------
(* Properties *)

\* C1: adaptive discovery returns after exactly `threshold` consecutive misses
\* that follow the last hit, having probed 1, 2, ... in order and nothing
\* beyond; when exactly the images 1, 2, 3 exist, it makes 6 probes and
\* returns the URLs of 1, 2, 3.
C1_AdaptiveStopsAtThreshold ==
    pc = "Discovered" =>
        /\ Len(probed) = LastHit + threshold
        /\ index = Len(probed) + 1
        /\ \A k \in 1..Len(probed) : probed[k] = (HeadResponse(k) = "image200")
        /\ \A k \in 1..(Len(probed) - threshold) :
               \E m \in k..(k + threshold - 1) : probed[m]
        /\ Images = {1, 2, 3} =>
               /\ Len(probed) = 6
               /\ discovered_urls = [i \in 1..3 |-> CandidateUrl(base_url, name, i)]

C1_Witness == pc = "Discovered" /\ Images = {1, 2, 3} /\ Len(probed) = 6

\* C2: when download_images has returned, every submitted URL has given
\* exactly one outcome to exactly one counter: succeeded + failed = N and
\* failed = the number of URLs whose request failed.
C2_CountersAccountForAll ==
    pc \in {"Reporting", "Done"} =>
        /\ success_count + fail_count = Len(all_urls)
        /\ fail_count = Cardinality(reqFailed)
        /\ consumed = Submitted
        /\ success_count = Cardinality({u \in Submitted : outcome[u] = "True"})
        /\ fail_count = Cardinality({u \in Submitted : outcome[u] = "False"})

C2_Witness ==
    /\ pc = "Done"
    /\ Len(all_urls) = MaxCount
    /\ fail_count >= 1
    /\ success_count >= 1

\* C3: a download that has ended as failed leaves its destination file either
\* absent or holding the complete body.
C3_NoPartialFileAfterFailure ==
    \A u \in DOMAIN status :
        (status[u] = "done" /\ outcome[u] = "False") => file[u] \in {-1, BodyChunks}

\* C4: with bound 3 and a remote that serves exactly the images 1 and 3, the
\* final report is total 3, downloaded 2, failed 0.
C4_FailedCountsOnlyDownloads ==
    ( /\ pc = "Done"
      /\ max_attempts = 3
      /\ remote[1] = "ok" /\ remote[2] = "status404" /\ remote[3] = "ok"
      /\ reqFailed \cap {1, 3} = {}
      /\ ioFailed = {} )
    => report = [total |-> 3, downloaded |-> 2, failed |-> 0]

\* C5: a file write failure is a per-item failure: the run is not aborted by
\* it, and the URL is counted in `failed`.
C5_WriteFailureIsPerItem ==
    /\ error = "OSError" => pc \notin {"Raising", "Failed"}
    /\ \A u \in ioFailed : u \in consumed => outcome[u] = "False"
    /\ pc \in {"Reporting", "Done"} => fail_count >= Cardinality(ioFailed)

\* C6: extract raises the format error exactly for the URLs that do not
\* contain /<token>/index.html with a non-empty token of word characters.
C6_FormatErrorIffNoSegment ==
    pc # "Init" =>
        /\ ~ContainsSegment(original_url) => (pc = "Failed" /\ error = "ValueError")
        /\ ContainsSegment(original_url) => (error # "ValueError" /\ Extracted)

C6_Witness ==
    /\ pc = "Failed"
    /\ error = "ValueError"
    /\ \E k \in 1..(Len(original_url) - 1) :
           original_url[k] = "/" /\ original_url[k + 1] = INDEX

\* C7: for an input without the /<token>/index.html segment the run ends in
\* the format error with no probe, no fetch, no candidate and no file.
C7_FormatErrorBeforeNetwork ==
    (pc # "Init" /\ ~ContainsSegment(original_url)) =>
        /\ pc = "Failed"
        /\ error = "ValueError"
        /\ fetched = {}
        /\ probed = <<>>
        /\ all_urls = <<>>
        /\ status = <<>>
        /\ file = <<>>

C7_Witness == pc = "Failed" /\ error = "ValueError" /\ ~ContainsSegment(original_url)

\* C8: once extracted, the stem is the token with its non-alphabetic
\* characters removed, order kept, and candidate number i is
\* base_url/images/<stem><i>.jpg.
C8_StemAndCandidateShape ==
    /\ Extracted => name = AlphaOnly(SegmentToken(original_url))
    /\ Generated =>
           \A i \in 1..Len(all_urls) :
               all_urls[i] = base_url \o <<"/", "images", "/">> \o name
                                      \o Decimal(i) \o <<".jpg">>

C8_Witness ==
    /\ Generated
    /\ Len(all_urls) >= 2
    /\ name # <<>>
    /\ name # SegmentToken(original_url)

\* C9: once extracted, base_url is the input up to the end of /<token>: no
\* trailing slash and nothing of what follows the directory path.
C9_BaseUrlIsDirectory ==
    Extracted =>
        /\ base_url = SegmentDirectory(original_url)
        /\ base_url[Len(base_url)] # "/"

\* C10: the bounded generator yields exactly max_attempts candidates numbered
\* 1..max_attempts in that order, and none, without error, for
\* max_attempts <= 0.
C10_BoundedGenerator ==
    Generated =>
        /\ Len(all_urls) = (IF max_attempts > 0 THEN max_attempts ELSE 0)
        /\ \A i \in 1..Len(all_urls) : CandidateIndex(all_urls[i]) = i
        /\ max_attempts <= 0 => (all_urls = <<>> /\ error = "none")

C10_Witness ==
    /\ Generated
    /\ max_attempts = MaxCount
    /\ Len(all_urls) = MaxCount
    /\ CandidateIndex(all_urls[MaxCount]) = MaxCount

\* C11 (as stated): every probe classifies its URL as existing exactly when
\* the answer has a success status (2xx) and an image content type; no probe
\* raises, and a finished validation pass has probed every candidate.
C11_ProberClassification ==
    /\ \A k \in 1..Len(probed) :
           LET resp == HeadResponse(k)
           IN  probed[k] = ( /\ ~NoAnswer(resp)
                             /\ StatusCode(resp) \in 200..299
                             /\ ContentType(resp) = "image/jpeg" )
    /\ error # "RequestException"
    /\ Len(probe_log) = Len(probed)
    /\ pc \in {"Validated", "Submitting", "Done"} => Len(probed) = Len(all_urls)

\* C11 (amended): is_image_url (v1.2) and validate_image_urls (v1.3) classify
\* as existing exactly the answers with status 200 and an image content type;
\* validate_url (v1.1) exactly the answers with status 200, whatever the
\* content type.  No probe raises, and a finished validation pass has probed
\* every candidate.
C11_ProberClassificationAmended ==
    /\ \A k \in 1..Len(probed) :
           probed[k] = ( HeadResponse(k) \in
                            (IF version = "v1.1"
                             THEN {"image200", "html200", "nohdr200"}
                             ELSE {"image200"}) )
    /\ error # "RequestException"
    /\ Len(probe_log) = Len(probed)
    /\ pc \in {"Validated", "Submitting", "Done"} => Len(probed) = Len(all_urls)

C11_Witness ==
    /\ version = "v1.1"
    /\ pc = "Validated"
    /\ Len(probed) = MaxCount
    /\ \E k \in DOMAIN remote : remote[k] = "timeout"
    /\ \E k \in DOMAIN remote : remote[k] = "image204"
    /\ \E k \in DOMAIN remote : remote[k] = "html200" /\ probed[k]

C13_ZeroValidCompletes ==
    ( /\ version = "v1.3"
      /\ pc \notin {"Init", "Generating", "Validating"}
      /\ error # "ValueError"
      /\ valid_urls = <<>> ) =>
        /\ pc = "Done"
        /\ error = "none"
        /\ Len(probed) = Len(all_urls)
        /\ status = <<>>
        /\ fetched = {}
        /\ file = <<>>
        /\ get_count = <<>>

C13_Witness ==
    /\ version = "v1.3"
    /\ pc = "Done"
    /\ valid_urls = <<>>
    /\ Len(probed) = DEFAULT_MAX_ATTEMPTS
    /\ \E k \in DOMAIN remote : remote[k] = "html200"

\* C14: within one run of v1.3 nothing is retried: the k-th HEAD request is
\* for the k-th candidate, and the latest one is for the candidate numbered
\* by the count of requests made, so no candidate is probed twice; the pool holds no
\* URL twice and issues at most one GET per URL; a URL whose download failed
\* has had exactly one GET and its worker has ended.
C14_NoRetry ==
    /\ \A k \in 1..Len(probe_log) : probe_log[k] = all_urls[k]
    /\ probe_log # <<>> =>
           CandidateIndex(probe_log[Len(probe_log)]) = Len(probe_log)
    /\ \A u \in DOMAIN status : \A v \in DOMAIN status :
           PoolUrls[u] = PoolUrls[v] => u = v
    /\ \A u \in DOMAIN get_count : get_count[u] <= 1
    /\ \A u \in fetched : get_count[u] = 1
    /\ \A u \in reqFailed \cup ioFailed :
           /\ status[u] = "done"
           /\ get_count[u] = 1
           /\ outcome[u] # "True"

C14_Witness ==
    /\ version = "v1.3"
    /\ pc = "Done"
    /\ reqFailed # {}
    /\ \E k \in 1..Len(probed) : ~probed[k]
    /\ Cardinality(fetched) = MaxCount

\* C15: every URL handed to the download pool, and every URL a GET was issued
\* for, was probed before and classified as existing by that probe.
C15_FetchOnlyAfterProbe ==
    \A u \in DOMAIN status \cup fetched :
        \E k \in 1..Len(probed) : probe_log[k] = PoolUrls[u] /\ probed[k]

\* the position of a stage of main in the order of the pipeline
StageRank(p) ==
    CASE p = "Init" -> 0
      [] p = "Generating" -> 1
      [] p = "Validating" -> 2
      [] p = "Submitting" -> 3
      [] p = "Downloading" -> 4
      [] p = "Raising" -> 5
      [] p = "Reporting" -> 6
      [] p = "Done" -> 7
      [] p = "Failed" -> 8

\* C16: main of v1.3 only moves forward through its stages and never leaves
\* Done or Failed; download workers exist only once every candidate has been
\* probed; the report is made only when every submitted URL has ended with
\* True or False and has been counted.
C16_StagesInOrder ==
    [][ /\ StageRank(pc') >= StageRank(pc)
        /\ pc \in {"Done", "Failed"} => pc' = pc
        /\ status' # <<>> =>
               /\ Len(probed') = Len(all_urls')
               /\ StageRank(pc') >= StageRank("Downloading")
        /\ report' # NoReport =>
               /\ pc' = "Done"
               /\ consumed' = DOMAIN status'
               /\ \A u \in DOMAIN status' :
                      status'[u] = "done" /\ outcome'[u] \in {"True", "False"}
               /\ report'.downloaded + report'.failed = Len(valid_urls')
      ]_vars

C16_Witness ==
    /\ version = "v1.3"
    /\ pc = "Done"
    /\ report # NoReport
    /\ report.downloaded >= 1
    /\ report.failed >= 1
    /\ Len(probed) = DEFAULT_MAX_ATTEMPTS

\* the submitted URLs whose download_image call has started and not ended
Fetching == {u \in DOMAIN status : status[u] \in {"running", "got", "streaming"}}

\* C17: at most 10 fetches are in flight at once, whatever the number of
\* submitted URLs.
C17_AtMostTenInFlight == Cardinality(Fetching) <= 10

\* C18: the counters have a single writer. A step that changes a counter is a
\* step of the driver's as_completed loop: it takes exactly one finished
\* future that was not taken before and adds exactly one to exactly one
\* counter (or it is the start of download_images, which sets both to 0); no
\* step of a worker changes a counter. So after every step each counter is
\* the number of futures taken with that result: no update is lost or made
\* twice.
C18_SingleWriter ==
    [][ /\ (success_count' # success_count \/ fail_count' # fail_count) =>
               \/ /\ pc = "Submitting"
                  /\ success_count' = 0 /\ fail_count' = 0
               \/ /\ pc = "Downloading"
                  /\ status' = status
                  /\ outcome' = outcome
                  /\ \E u \in DOMAIN status :
                         /\ u \notin consumed
                         /\ status[u] = "done"
                         /\ consumed' = consumed \cup {u}
                  /\ success_count' + fail_count' = success_count + fail_count + 1
        /\ status' # status => (success_count' = success_count /\ fail_count' = fail_count)
               \/ pc = "Submitting"
        /\ success_count' = Cardinality({u \in consumed' : outcome'[u] = "True"})
        /\ fail_count' = Cardinality({u \in consumed' : outcome'[u] = "False"})
      ]_vars

C18_Witness ==
    /\ version = "v1.4"
    /\ pc = "Downloading"
    /\ success_count = 1
    /\ fail_count = 1
    /\ \E u \in DOMAIN status : status[u] \in {"running", "got", "streaming"}

\* the image numbers up to i that exist
Existing(i) == {j \in 1..i : HeadResponse(j) = "image200"}

\* every window of 3 consecutive image numbers holds an existing one
EveryWindowHasImage ==
    /\ tail
    /\ \A i \in 1..MaxIndex : Existing(i + 2) \ 1..(i - 1) # {}

\* C19: against a server with finitely many images discovery returns, after
\* at most 3 probes beyond the last image; against a server with an image in
\* every window of 3 consecutive numbers it never returns, the loop still
\* runs at any image number.
C19_TerminationByProber ==
    /\ ~tail => <>(pc = "Discovered" /\ Len(probed) <= MaxIndex + threshold)
    /\ EveryWindowHasImage =>
           [](pc = "Discovering" /\ loop_cond(failures) /\ index = Len(probed) + 1)

C19_Witness ==
    /\ EveryWindowHasImage
    /\ pc = "Discovering"
    /\ index > IndexCap
    /\ Len(discovered_urls) < Len(probed)

\* the first image number that starts a run of 3 numbers without an image
FirstGap ==
    Min({i \in 1..IndexCap : Existing(i + threshold - 1) \ 1..(i - 1) = {}})

\* C20: throughout discovery the failure counter is in 0..3 and is the number
\* of probes since the last hit (or since the start), and the next index is
\* the number of probes plus 1; on return the probes went exactly to the end
\* of the first run of 3 missing numbers and the result is the URLs of all
\* existing numbers below that run, in increasing order: shorter gaps are
\* passed over, nothing beyond the run is probed or returned.
C20_DiscoveryInvariant ==
    /\ failures \in 0..threshold
    /\ failures = Len(probed) - LastHit
    /\ index = Len(probed) + 1
    /\ pc = "Discovered" =>
           LET below == Existing(FirstGap - 1)
               number(k) == CandidateIndex(discovered_urls[k])
           IN  /\ Len(probed) = FirstGap + threshold - 1
               /\ Len(discovered_urls) = Cardinality(below)
               /\ \A k \in 1..Len(discovered_urls) :
                      /\ number(k) \in below
                      /\ discovered_urls[k] = CandidateUrl(base_url, name, number(k))
                      /\ k > 1 => number(k - 1) < number(k)

C20_Witness ==
    /\ pc = "Discovered"
    /\ Images = {1, 4}
    /\ Len(discovered_urls) = 2
    /\ Len(probed) = 7

\* the submitted URLs whose worker has the destination file open, or has had
Writers == {u \in DOMAIN file : file[u] >= 0}

\* C21: candidates with distinct indices have distinct basenames: with the
\* base URL and stem of the run, the first 100 candidates give 100 basenames,
\* each the stem, the index and ".jpg"; so the submitted URLs have pairwise
\* distinct destination paths, and no two workers ever open or write the
\* same path.
C21_DistinctDestinations ==
    /\ pc = "Submitting" =>
           /\ Cardinality({basename(CandidateUrl(base_url, name, i)) :
                               i \in 1..FALLBACK_MAX_ATTEMPTS}) = FALLBACK_MAX_ATTEMPTS
           /\ \A i \in 1..Len(all_urls) :
                  basename(all_urls[i]) = name \o Decimal(i) \o <<".jpg">>
    /\ \A u \in DOMAIN status : \A v \in DOMAIN status :
           u # v => file_path(u) # file_path(v)
    /\ \A u \in Writers : \A v \in Writers :
           file_path(u) = file_path(v) => u = v

C21_Witness ==
    /\ version = "v1.4"
    /\ pc = "Downloading"
    /\ Len(all_urls) = MaxCount
    /\ Cardinality({u \in DOMAIN status : status[u] = "streaming"}) >= 2
    /\ Cardinality(Writers) >= 2

TypeOK ==
    /\ original_url \in Seq(Alphabet)
    /\ max_attempts \in Int
    /\ pc \in {"Start", "Init", "Generating", "Validating", "Validated", "Submitting",
               "Downloading", "Raising", "Reporting", "Done", "Failed",
               "Discovering", "Discovered"}
    /\ error \in {"none", "ValueError", "OSError", "RequestException"}
    /\ consumed \subseteq Submitted
    /\ success_count \in Nat /\ fail_count \in Nat

====
